---- MODULE Spec2Model ----
(***************************************************************************)
(* DDP-24 emulator (Viking lander guidance computer): the processor model  *)
(* of src/src/ddp24.c and src/include/ddp24.h as a state machine.          *)
(*                                                                         *)
(* Words are naturals below 2^24.  The 32768-word core store is kept as a  *)
(* finite map that holds only the non-zero words; a word that is not in    *)
(* the map is zero (ddp24_init clears the whole store).                    *)
(*                                                                         *)
(* TLC integers are 32 bits wide, so the uint32/uint64 intermediates of    *)
(* the C code are computed in pieces that stay below 2^31; each place says *)
(* which C expression it computes.                                         *)
(***************************************************************************)
EXTENDS Integers, Sequences, FiniteSets, TLC

(***************************************************************************)
(* Constants of ddp24.h                                                    *)
(***************************************************************************)
WORD_MASK == 16777215
SIGN_BIT == 8388608
MAGNITUDE_MASK == 8388607
OP_SHIFT == 18
OP_MASK == 63
INDIRECT_BIT == 131072
INDEX_SHIFT == 15
INDEX_MASK == 3
ADDR_MASK == 32767
MEM_SIZE == 32768

OP_HLT == 0
OP_XEC == 2
OP_STB == 3
OP_STC == 4
OP_STA == 5
OP_ADD == 8
OP_SUB == 9
OP_SKG == 10
OP_SKN == 11
OP_ANA == 13
OP_ORA == 14
OP_ERA == 15
OP_LDB == 19
OP_LDA == 20
OP_JSL == 23
OP_MPY == 28
OP_DIV == 29
OP_ARS == 32
OP_ALS == 33
OP_SMX == 44
OP_TAB == 45
OP_LDX == 46
OP_IAB == 47
OP_TAX == 51
OP_SIX == 54
OP_JPL == 56
OP_JZE == 57
OP_JMI == 58
OP_JNZ == 59
OP_JMP == 60
OP_NOP == 63

(***************************************************************************)
(* Bit operations on naturals.  x & m with m = 2^k - 1 is x % 2^k.         *)
(***************************************************************************)
RECURSIVE Pow2(_)
Pow2(n) == IF n = 0 THEN 1 ELSE 2 * Pow2(n - 1)

\* x >> n for a value below 2^31 and n in 0..31 (2^31 itself is not a TLC integer)
RECURSIVE ShiftRight(_, _)
ShiftRight(x, n) == IF n = 0 \/ x = 0 THEN x ELSE ShiftRight(x \div 2, n - 1)

\* ((uint32)(x << n)) & MAGNITUDE_MASK: the bits of x << n below bit 23; the
\* uint32 wrap at bit 32 only drops bits the mask drops as well
RECURSIVE ShiftLeftMag(_, _)
ShiftLeftMag(x, n) ==
    IF n = 0 THEN x % (MAGNITUDE_MASK + 1)
    ELSE ShiftLeftMag((2 * x) % (MAGNITUDE_MASK + 1), n - 1)

RECURSIVE BitAnd(_, _, _)
BitAnd(x, y, bits) ==
    IF bits = 0 THEN 0
    ELSE (IF x % 2 = 1 /\ y % 2 = 1 THEN 1 ELSE 0)
         + (2 * BitAnd(x \div 2, y \div 2, bits - 1))

RECURSIVE BitOr(_, _, _)
BitOr(x, y, bits) ==
    IF bits = 0 THEN 0
    ELSE (IF x % 2 = 1 \/ y % 2 = 1 THEN 1 ELSE 0)
         + (2 * BitOr(x \div 2, y \div 2, bits - 1))

RECURSIVE BitXor(_, _, _)
BitXor(x, y, bits) ==
    IF bits = 0 THEN 0
    ELSE (IF (x % 2) # (y % 2) THEN 1 ELSE 0)
         + (2 * BitXor(x \div 2, y \div 2, bits - 1))

\* w & SIGN_BIT as a truth value, w & MAGNITUDE_MASK, w & WORD_MASK, a & ADDR_MASK
SignSet(w) == (w \div SIGN_BIT) % 2 = 1
Mag(w) == w % (MAGNITUDE_MASK + 1)
Word(w) == w % (WORD_MASK + 1)
Addr(a) == a % (ADDR_MASK + 1)

(***************************************************************************)
(* Sign-magnitude helpers (ddp24.c)                                        *)
(***************************************************************************)
to_signed(w) ==
    IF SignSet(Word(w)) THEN -Mag(Word(w)) ELSE Mag(Word(w))

\* mutant of from_signed: a non-negative value is masked to the word, so a
\* carry out of the magnitude lands in the sign bit
from_signed_KeepsCarry(v) ==
    IF v < 0 THEN SIGN_BIT + Mag(-v) ELSE Word(v)

from_signed(v) ==
    IF v < 0 THEN SIGN_BIT + Mag(-v) ELSE Mag(v)

(***************************************************************************)
(* Instruction decode helpers (ddp24.h)                                    *)
(***************************************************************************)
OpUnit == Pow2(OP_SHIFT)
IndexUnit == Pow2(INDEX_SHIFT)
decode_opcode(instr) == (instr \div OpUnit) % (OP_MASK + 1)
decode_indirect(instr) == (instr \div INDIRECT_BIT) % 2 = 1
decode_index(instr) == (instr \div IndexUnit) % (INDEX_MASK + 1)
decode_address(instr) == instr % (ADDR_MASK + 1)

(***************************************************************************)
(* Memory                                                                  *)
(***************************************************************************)
\* memory[a] of the sparse store
Cell(mem, a) == IF a \in DOMAIN mem THEN mem[a] ELSE 0

\* memory[a] = v on the sparse store (zero words are not kept)
Store(mem, a, v) ==
    IF v = 0 THEN [x \in DOMAIN mem \ {a} |-> mem[x]]
    ELSE [x \in DOMAIN mem \cup {a} |-> IF x = a THEN v ELSE mem[x]]

ddp24_read(cpu, addr) == Word(Cell(cpu.memory, addr % MEM_SIZE))

\* mutant of ddp24_write: the address is not reduced modulo MEM_SIZE
ddp24_write_NoAddrMask(cpu, addr, value) ==
    [cpu EXCEPT !.memory = Store(@, addr, Word(value))]

ddp24_write(cpu, addr, value) ==
    [cpu EXCEPT !.memory = Store(@, addr % MEM_SIZE, Word(value))]

\* mutant of effective_address: a pointer word that has its own indirect
\* bit set is followed a second time
effective_address_Chained(cpu, instr) ==
    LET addr == decode_address(instr)
        idx == decode_index(instr)
        indexed == IF idx > 0 THEN Addr(addr + cpu.X[idx]) ELSE addr
        pointer == ddp24_read(cpu, indexed)
    IN IF ~decode_indirect(instr) THEN indexed
       ELSE IF decode_indirect(pointer) THEN Addr(ddp24_read(cpu, Addr(pointer)))
       ELSE Addr(pointer)

effective_address(cpu, instr) ==
    LET addr == decode_address(instr)
        idx == decode_index(instr)
        indexed == IF idx > 0 THEN Addr(addr + cpu.X[idx]) ELSE addr
    IN IF decode_indirect(instr) THEN Addr(ddp24_read(cpu, indexed)) ELSE indexed

(***************************************************************************)
(* The dispatcher: one operator per case of the switch in ddp24_step.      *)
(* Each takes the processor after the fetch (PC already advanced), the     *)
(* instruction word and its effective address, and gives the processor     *)
(* after the case and the case's cycle cost.                               *)
(***************************************************************************)
\* mutant of ExecHLT: the fetch increment is not undone
ExecHLT_NoRestore(cpu, instr, ea) ==
    [cpu |-> [cpu EXCEPT !.halted = TRUE], cycles |-> 5]

ExecHLT(cpu, instr, ea) ==
    [cpu |-> [cpu EXCEPT !.halted = TRUE, !.PC = Addr(cpu.PC - 1)], cycles |-> 5]

ExecNOP(cpu, instr, ea) == [cpu |-> cpu, cycles |-> 5]

ExecLDA(cpu, instr, ea) ==
    [cpu |-> [cpu EXCEPT !.A = ddp24_read(cpu, ea)], cycles |-> 10]

ExecLDB(cpu, instr, ea) ==
    [cpu |-> [cpu EXCEPT !.B = ddp24_read(cpu, ea)], cycles |-> 10]

\* mutant of ExecSTA: only the magnitude of A is stored
ExecSTA_StoresMagnitude(cpu, instr, ea) ==
    [cpu |-> ddp24_write(cpu, ea, Mag(cpu.A)), cycles |-> 10]

ExecSTA(cpu, instr, ea) == [cpu |-> ddp24_write(cpu, ea, cpu.A), cycles |-> 10]

ExecSTB(cpu, instr, ea) == [cpu |-> ddp24_write(cpu, ea, cpu.B), cycles |-> 10]

\* result > 0x7FFFFF || result < -0x7FFFFF
ArithOverflow(result) == result > MAGNITUDE_MASK \/ result < -MAGNITUDE_MASK

\* mutant of ExecADD: overflow is assigned the outcome of this addition
ExecADD_AssignsOverflow(cpu, instr, ea) ==
    LET operand == ddp24_read(cpu, ea)
        result == to_signed(cpu.A) + to_signed(operand)
    IN [cpu |-> [cpu EXCEPT !.overflow = ArithOverflow(result),
                            !.A = from_signed(result)],
        cycles |-> 10]

ExecADD(cpu, instr, ea) ==
    LET operand == ddp24_read(cpu, ea)
        result == to_signed(cpu.A) + to_signed(operand)
    IN [cpu |-> [cpu EXCEPT !.overflow = IF ArithOverflow(result) THEN TRUE ELSE @,
                            !.A = from_signed(result)],
        cycles |-> 10]

ExecSUB(cpu, instr, ea) ==
    LET operand == ddp24_read(cpu, ea)
        result == to_signed(cpu.A) - to_signed(operand)
    IN [cpu |-> [cpu EXCEPT !.overflow = IF ArithOverflow(result) THEN TRUE ELSE @,
                            !.A = from_signed(result)],
        cycles |-> 10]

\* (uint64_t)b_mag * (uint64_t)y_mag for magnitudes below 2^23, as the pair
\* hi = product >> 23 and lo = product & MAGNITUDE_MASK, from 12-bit limbs
Product46(b_mag, y_mag) ==
    LET bh == b_mag \div 4096
        bl == b_mag % 4096
        yh == y_mag \div 4096
        yl == y_mag % 4096
        p0 == bl * yl
        p1 == (bh * yl) + (bl * yh)
        p2 == bh * yh
        s == p0 + ((p1 % 2048) * 4096)
    IN [hi |-> (2 * p2) + (p1 \div 2048) + (s \div (MAGNITUDE_MASK + 1)),
        lo |-> s % (MAGNITUDE_MASK + 1)]

\* mutant of ExecMPY: the algebraic sign is applied to a zero product too
ExecMPY_SignsZero(cpu, instr, ea) ==
    LET operand == ddp24_read(cpu, ea)
        result_neg == SignSet(cpu.B) # SignSet(operand)
        product == Product46(Mag(cpu.B), Mag(operand))
        a_mag == Mag(product.hi)
        new_b_mag == product.lo
    IN [cpu |-> [cpu EXCEPT !.A = IF result_neg THEN SIGN_BIT + a_mag ELSE a_mag,
                            !.B = IF result_neg THEN SIGN_BIT + new_b_mag
                                  ELSE new_b_mag],
        cycles |-> 28]

ExecMPY(cpu, instr, ea) ==
    LET operand == ddp24_read(cpu, ea)
        b_mag == Mag(cpu.B)
        y_mag == Mag(operand)
        result_neg == SignSet(cpu.B) # SignSet(operand)
        product == Product46(b_mag, y_mag)
        a_mag == Mag(product.hi)
        new_b_mag == product.lo
        signed == result_neg /\ (a_mag # 0 \/ new_b_mag # 0)
    IN [cpu |-> [cpu EXCEPT !.A = IF signed THEN SIGN_BIT + a_mag ELSE a_mag,
                            !.B = IF signed THEN SIGN_BIT + new_b_mag ELSE new_b_mag],
        cycles |-> 28]

\* dividend / divisor_mag and dividend % divisor_mag for the 46-bit dividend
\* (a_mag << 23) | b_mag, by long division over the 23 bits of b_mag.
\* Called with a_mag < divisor_mag, so the quotient is below 2^23 and the
\* conversion of the quotient to uint32_t keeps it.
RECURSIVE LongDivide(_, _, _, _, _)
LongDivide(rem, quo, b_mag, divisor_mag, bit) ==
    IF bit = 0 THEN [quotient |-> quo, remainder |-> rem]
    ELSE LET r == (2 * rem) + ((b_mag \div Pow2(bit - 1)) % 2)
         IN IF r >= divisor_mag
            THEN LongDivide(r - divisor_mag, (2 * quo) + 1, b_mag, divisor_mag, bit - 1)
            ELSE LongDivide(r, 2 * quo, b_mag, divisor_mag, bit - 1)

\* mutant of ExecDIV: the remainder takes the algebraic sign of the quotient
ExecDIV_RemainderSignAlgebraic(cpu, instr, ea) ==
    LET operand == ddp24_read(cpu, ea)
        divisor_mag == Mag(operand)
        a_mag == Mag(cpu.A)
        quotient_neg == SignSet(cpu.A) # SignSet(operand)
    IN IF a_mag >= divisor_mag
       THEN [cpu |-> [cpu EXCEPT !.overflow = TRUE], cycles |-> 44]
       ELSE LET d == LongDivide(a_mag, 0, Mag(cpu.B), divisor_mag, 23)
            IN [cpu |-> [cpu EXCEPT
                    !.B = IF quotient_neg /\ d.quotient # 0
                          THEN SIGN_BIT + d.quotient ELSE d.quotient,
                    !.A = IF quotient_neg /\ d.remainder # 0
                          THEN SIGN_BIT + d.remainder ELSE d.remainder],
                cycles |-> 44]

\* mutant of ExecDIV: the improper test is strict, so a dividend whose high
\* half equals the divisor (a zero divisor under a zero A included) is divided
ExecDIV_StrictTest(cpu, instr, ea) ==
    LET operand == ddp24_read(cpu, ea)
        divisor_mag == Mag(operand)
        a_mag == Mag(cpu.A)
        dividend_neg == SignSet(cpu.A)
        divisor_neg == SignSet(operand)
    IN IF a_mag > divisor_mag
       THEN [cpu |-> [cpu EXCEPT !.overflow = TRUE], cycles |-> 44]
       ELSE LET d == LongDivide(a_mag, 0, Mag(cpu.B), divisor_mag, 23)
                quotient_neg == dividend_neg # divisor_neg
            IN [cpu |-> [cpu EXCEPT
                    !.B = IF quotient_neg /\ d.quotient # 0
                          THEN SIGN_BIT + Mag(d.quotient) ELSE Mag(d.quotient),
                    !.A = IF dividend_neg /\ d.remainder # 0
                          THEN SIGN_BIT + d.remainder ELSE d.remainder],
                cycles |-> 44]

\* mutant of ExecDIV: an improper divide is treated as fatal
ExecDIV_ImproperHalts(cpu, instr, ea) ==
    LET operand == ddp24_read(cpu, ea)
        divisor_mag == Mag(operand)
        a_mag == Mag(cpu.A)
        dividend_neg == SignSet(cpu.A)
        divisor_neg == SignSet(operand)
    IN IF a_mag >= divisor_mag
       THEN [cpu |-> [cpu EXCEPT !.overflow = TRUE, !.halted = TRUE], cycles |-> 44]
       ELSE LET d == LongDivide(a_mag, 0, Mag(cpu.B), divisor_mag, 23)
                quotient_neg == dividend_neg # divisor_neg
            IN [cpu |-> [cpu EXCEPT
                    !.B = IF quotient_neg /\ d.quotient # 0
                          THEN SIGN_BIT + d.quotient ELSE d.quotient,
                    !.A = IF dividend_neg /\ d.remainder # 0
                          THEN SIGN_BIT + d.remainder ELSE d.remainder],
                cycles |-> 44]

ExecDIV(cpu, instr, ea) ==
    LET operand == ddp24_read(cpu, ea)
        divisor_mag == Mag(operand)
        a_mag == Mag(cpu.A)
        dividend_neg == SignSet(cpu.A)
        divisor_neg == SignSet(operand)
    IN IF a_mag >= divisor_mag
       THEN [cpu |-> [cpu EXCEPT !.overflow = TRUE], cycles |-> 44]
       ELSE LET d == LongDivide(a_mag, 0, Mag(cpu.B), divisor_mag, 23)
                quotient_neg == dividend_neg # divisor_neg
            IN [cpu |-> [cpu EXCEPT
                    !.B = IF quotient_neg /\ d.quotient # 0
                          THEN SIGN_BIT + d.quotient ELSE d.quotient,
                    !.A = IF dividend_neg /\ d.remainder # 0
                          THEN SIGN_BIT + d.remainder ELSE d.remainder],
                cycles |-> 44]

ExecANA(cpu, instr, ea) ==
    [cpu |-> [cpu EXCEPT !.A = Word(BitAnd(cpu.A, ddp24_read(cpu, ea), 24))],
     cycles |-> 10]

ExecORA(cpu, instr, ea) ==
    [cpu |-> [cpu EXCEPT !.A = Word(BitOr(cpu.A, ddp24_read(cpu, ea), 24))],
     cycles |-> 10]

ExecERA(cpu, instr, ea) ==
    [cpu |-> [cpu EXCEPT !.A = Word(BitXor(cpu.A, ddp24_read(cpu, ea), 24))],
     cycles |-> 10]

ExecJMP(cpu, instr, ea) == [cpu |-> [cpu EXCEPT !.PC = ea], cycles |-> 5]

\* mutant of ExecJPL: positive zero counts as plus
ExecJPL_NonNegative(cpu, instr, ea) ==
    [cpu |-> IF ~SignSet(cpu.A) THEN [cpu EXCEPT !.PC = ea] ELSE cpu, cycles |-> 6]

ExecJPL(cpu, instr, ea) ==
    [cpu |-> IF ~SignSet(cpu.A) /\ Mag(cpu.A) # 0 THEN [cpu EXCEPT !.PC = ea] ELSE cpu,
     cycles |-> 6]

ExecJMI(cpu, instr, ea) ==
    [cpu |-> IF SignSet(cpu.A) THEN [cpu EXCEPT !.PC = ea] ELSE cpu, cycles |-> 6]

ExecJZE(cpu, instr, ea) ==
    [cpu |-> IF Mag(cpu.A) = 0 THEN [cpu EXCEPT !.PC = ea] ELSE cpu, cycles |-> 6]

ExecJNZ(cpu, instr, ea) ==
    [cpu |-> IF Mag(cpu.A) # 0 THEN [cpu EXCEPT !.PC = ea] ELSE cpu, cycles |-> 6]

\* mutant of ExecJSL: the jump lands on the link cell itself
ExecJSL_JumpsToLink(cpu, instr, ea) ==
    [cpu |-> [ddp24_write(cpu, ea, cpu.PC) EXCEPT !.PC = ea], cycles |-> 10]

ExecJSL(cpu, instr, ea) ==
    [cpu |-> [ddp24_write(cpu, ea, cpu.PC) EXCEPT !.PC = Addr(ea + 1)], cycles |-> 10]

\* mutant of ExecSKG: the words are compared as unsigned 24-bit patterns
ExecSKG_ComparesPatterns(cpu, instr, ea) ==
    [cpu |-> IF cpu.A > ddp24_read(cpu, ea)
             THEN [cpu EXCEPT !.PC = Addr(cpu.PC + 1)] ELSE cpu,
     cycles |-> 10]

ExecSKG(cpu, instr, ea) ==
    [cpu |-> IF to_signed(cpu.A) > to_signed(ddp24_read(cpu, ea))
             THEN [cpu EXCEPT !.PC = Addr(cpu.PC + 1)] ELSE cpu,
     cycles |-> 10]

ExecSKN(cpu, instr, ea) ==
    [cpu |-> IF cpu.A # ddp24_read(cpu, ea)
             THEN [cpu EXCEPT !.PC = Addr(cpu.PC + 1)] ELSE cpu,
     cycles |-> 10]

ExecTAB(cpu, instr, ea) == [cpu |-> [cpu EXCEPT !.B = cpu.A], cycles |-> 5]

\* mutant of ExecIAB: the interchange keeps its temporary in memory[ea]
ExecIAB_SpillsA(cpu, instr, ea) ==
    [cpu |-> [ddp24_write(cpu, ea, cpu.A) EXCEPT !.A = cpu.B, !.B = cpu.A],
     cycles |-> 10]

ExecIAB(cpu, instr, ea) ==
    [cpu |-> [cpu EXCEPT !.A = cpu.B, !.B = cpu.A], cycles |-> 10]

ExecLDX(cpu, instr, ea) ==
    LET idx == decode_index(instr)
    IN [cpu |-> IF idx > 0
                THEN [cpu EXCEPT !.X[idx] = Addr(ddp24_read(cpu, ea))] ELSE cpu,
        cycles |-> 5]

ExecSIX(cpu, instr, ea) ==
    [cpu |-> ddp24_write(cpu, ea, cpu.X[decode_index(instr)]), cycles |-> 10]

\* mutant of ExecARS: the sign is not put back on the shifted magnitude
ExecARS_DropsSign(cpu, instr, ea) ==
    [cpu |-> [cpu EXCEPT !.A = ShiftRight(Mag(cpu.A), ea % 32)],
     cycles |-> 5 + (ea % 32)]

ExecARS(cpu, instr, ea) ==
    LET count == ea % 32
        sign == IF SignSet(cpu.A) THEN SIGN_BIT ELSE 0
    IN [cpu |-> [cpu EXCEPT !.A = sign + ShiftRight(Mag(cpu.A), count)],
        cycles |-> 5 + (ea % 32)]

ExecALS(cpu, instr, ea) ==
    LET count == ea % 32
        sign == IF SignSet(cpu.A) THEN SIGN_BIT ELSE 0
    IN [cpu |-> [cpu EXCEPT !.A = sign + ShiftLeftMag(Mag(cpu.A), count)],
        cycles |-> 5 + (ea % 32)]

\* mutant of ExecDefault: the fault is charged no cycles
ExecDefault_NoCycles(cpu, instr, ea) ==
    [cpu |-> [cpu EXCEPT !.halted = TRUE], cycles |-> 0]

\* mutant of ExecDefault: an opcode without a case is skipped like NOP
ExecDefault_AsNOP(cpu, instr, ea) == [cpu |-> cpu, cycles |-> 5]

\* default: the diagnostic is printed, halted is latched, cycles keeps its
\* initial value 5
ExecDefault(cpu, instr, ea) == [cpu |-> [cpu EXCEPT !.halted = TRUE], cycles |-> 5]

(***************************************************************************)
(* ddp24_step.  A call gives the processor after the call, the value the   *)
(* call returns (ret), and the fetches it made, outermost first (trace:    *)
(* the address fetched from, the word, its opcode and effective address).  *)
(*                                                                         *)
(* XEC calls ddp24_step from inside ddp24_step, and nothing in the code    *)
(* bounds the nesting.  Between the entry of a call and the entry of the   *)
(* call nested in it only PC changes, so a nested call entered at a PC at  *)
(* which an enclosing call was entered repeats that call exactly and the   *)
(* recursion never ends (the call does not return: the host stack runs     *)
(* out).  `entered` is the set of PCs of the enclosing calls; returns is   *)
(* FALSE for a call that does not return.                                  *)
(***************************************************************************)
RECURSIVE ddp24_step(_, _)

Returned(r) == [cpu |-> r.cpu, cycles |-> r.cycles, returns |-> TRUE, trace |-> <<>>]

ExecXEC(cpu, instr, ea, entered) ==
    LET inner == ddp24_step([cpu EXCEPT !.PC = Addr(ea + 1)], entered)
    IN [cpu |-> inner.cpu, cycles |-> 5 + inner.ret,
        returns |-> inner.returns, trace |-> inner.trace]

Dispatch(cpu, instr, ea, entered) ==
    LET op == decode_opcode(instr)
    IN CASE op = OP_HLT -> Returned(ExecHLT(cpu, instr, ea))
         [] op = OP_NOP -> Returned(ExecNOP(cpu, instr, ea))
         [] op = OP_LDA -> Returned(ExecLDA(cpu, instr, ea))
         [] op = OP_LDB -> Returned(ExecLDB(cpu, instr, ea))
         [] op = OP_STA -> Returned(ExecSTA(cpu, instr, ea))
         [] op = OP_STB -> Returned(ExecSTB(cpu, instr, ea))
         [] op = OP_ADD -> Returned(ExecADD(cpu, instr, ea))
         [] op = OP_SUB -> Returned(ExecSUB(cpu, instr, ea))
         [] op = OP_MPY -> Returned(ExecMPY(cpu, instr, ea))
         [] op = OP_DIV -> Returned(ExecDIV(cpu, instr, ea))
         [] op = OP_ANA -> Returned(ExecANA(cpu, instr, ea))
         [] op = OP_ORA -> Returned(ExecORA(cpu, instr, ea))
         [] op = OP_ERA -> Returned(ExecERA(cpu, instr, ea))
         [] op = OP_JMP -> Returned(ExecJMP(cpu, instr, ea))
         [] op = OP_JPL -> Returned(ExecJPL(cpu, instr, ea))
         [] op = OP_JMI -> Returned(ExecJMI(cpu, instr, ea))
         [] op = OP_JZE -> Returned(ExecJZE(cpu, instr, ea))
         [] op = OP_JNZ -> Returned(ExecJNZ(cpu, instr, ea))
         [] op = OP_JSL -> Returned(ExecJSL(cpu, instr, ea))
         [] op = OP_SKG -> Returned(ExecSKG(cpu, instr, ea))
         [] op = OP_SKN -> Returned(ExecSKN(cpu, instr, ea))
         [] op = OP_TAB -> Returned(ExecTAB(cpu, instr, ea))
         [] op = OP_IAB -> Returned(ExecIAB(cpu, instr, ea))
         [] op = OP_LDX -> Returned(ExecLDX(cpu, instr, ea))
         [] op = OP_SIX -> Returned(ExecSIX(cpu, instr, ea))
         [] op = OP_ARS -> Returned(ExecARS(cpu, instr, ea))
         [] op = OP_ALS -> Returned(ExecALS(cpu, instr, ea))
         [] op = OP_XEC -> ExecXEC(cpu, instr, ea, entered)
         [] OTHER -> Returned(ExecDefault(cpu, instr, ea))

\* mutant of Fetched: the increment is not masked
Fetched_NoWrap(cpu) == [cpu EXCEPT !.PC = cpu.PC + 1]

\* cpu->PC = (cpu->PC + 1) & ADDR_MASK
Fetched(cpu) == [cpu EXCEPT !.PC = Addr(cpu.PC + 1)]

\* cpu->cycles += cycles
Account(cpu, cost) == [cpu EXCEPT !.cycles = @ + cost]

NoReturn(cpu) == [cpu |-> cpu, ret |-> 0, returns |-> FALSE, trace |-> <<>>]

\* ddp24_step from the fetch on (the processor is not halted)
RunningStep(cpu, entered) ==
    IF cpu.PC \in entered THEN NoReturn(cpu)
    ELSE LET instr == ddp24_read(cpu, cpu.PC)
             c1 == Fetched(cpu)
             ea == effective_address(c1, instr)
             d == Dispatch(c1, instr, ea, entered \cup {cpu.PC})
             here == [addr |-> cpu.PC, instr |-> instr,
                      op |-> decode_opcode(instr), ea |-> ea]
         IN IF ~d.returns THEN NoReturn(cpu)
            ELSE [cpu |-> Account(d.cpu, d.cycles), ret |-> d.cycles,
                  returns |-> TRUE, trace |-> <<here>> \o d.trace]

\* mutant of ddp24_step: halted is not tested on entry
ddp24_step_IgnoresHalted(cpu, entered) == RunningStep(cpu, entered)

ddp24_step(cpu, entered) ==
    IF cpu.halted THEN [cpu |-> cpu, ret |-> 0, returns |-> TRUE, trace |-> <<>>]
    ELSE RunningStep(cpu, entered)

\* ddp24_init: memset to zero, flags and cycle counter cleared
ddp24_init ==
    [A |-> 0, B |-> 0, X |-> [i \in 0..3 |-> 0], PC |-> 0, memory |-> <<>>,
     overflow |-> FALSE, halted |-> FALSE, interrupt_enabled |-> FALSE, cycles |-> 0]

\* mutant of ddp24_reset: reset clears the store as construction does
ddp24_reset_ClearsMemory(cpu) == ddp24_init

ddp24_reset(cpu) ==
    [cpu EXCEPT !.A = 0, !.B = 0, !.X = [i \in 0..3 |-> 0], !.PC = 0,
                !.halted = FALSE, !.overflow = FALSE, !.interrupt_enabled = FALSE,
                !.cycles = 0]

\* mutant of RunContinues: the budget test admits total = max_cycles
RunContinues_Inclusive(cpu, max_cycles, total) ==
    ~cpu.halted /\ (max_cycles <= 0 \/ total <= max_cycles)

\* the loop condition of ddp24_run
RunContinues(cpu, max_cycles, total) ==
    ~cpu.halted /\ (max_cycles <= 0 \/ total < max_cycles)

(***************************************************************************)
(* Inputs of the model                                                     *)
(***************************************************************************)
\* step calls are explored while the cycle counter is below MaxCycles
MaxCycles == 30

\* (op << OP_SHIFT) | (indirect << 17) | (idx << INDEX_SHIFT) | addr, as the
\* self-tests of main.c build instruction words
Instr(op, ind, idx, addr) ==
    (op * OpUnit) + (ind * INDIRECT_BIT) + (idx * IndexUnit) + addr

\* the 28 opcodes the switch of ddp24_step has a case for
CaseOpcodes ==
    {OP_HLT, OP_NOP, OP_LDA, OP_LDB, OP_STA, OP_STB, OP_ADD, OP_SUB, OP_MPY,
     OP_DIV, OP_ANA, OP_ORA, OP_ERA, OP_JMP, OP_JPL, OP_JMI, OP_JZE, OP_JNZ,
     OP_JSL, OP_SKG, OP_SKN, OP_TAB, OP_IAB, OP_LDX, OP_SIX, OP_ARS, OP_ALS,
     OP_XEC}

\* The words a driver pokes at each address it loads.
\*   0     a set-up instruction: load A, B or X[1], XEC of the word at 1, at
\*         32767 or at 0 (itself), a jump to the last word of memory
\*   1     the instruction under study: every opcode 0..63 with a direct
\*         address, and every opcode that has a case with the last word of
\*         memory as operand and with an indexed, indirect address
\*   2     a following instruction
\*   32767 an operand: a value wider than 24 bits, the all-ones word, or an
\*         instruction that lets PC wrap
WriteValues(a) ==
    CASE a = 0 -> {Instr(OP_LDA, 0, 0, 0), Instr(OP_LDB, 0, 0, 32767),
                   Instr(OP_LDX, 0, 1, 32767), Instr(OP_XEC, 0, 0, 0),
                   Instr(OP_XEC, 0, 0, 32766), Instr(OP_XEC, 0, 0, 32767),
                   Instr(OP_JMP, 0, 0, 32767)}
      [] a = 1 -> {Instr(op, 0, 0, 0) : op \in 0..63}
                  \cup {Instr(op, 0, 0, 32767) : op \in CaseOpcodes}
                  \cup {Instr(op, 1, 1, 32767) : op \in CaseOpcodes}
      [] a = 2 -> {Instr(OP_ADD, 0, 0, 32767), Instr(OP_SUB, 0, 0, 0),
                   Instr(OP_JMP, 0, 0, 32767), Instr(OP_JMP, 0, 0, 0)}
      [] OTHER -> {WORD_MASK + 6, WORD_MASK, Instr(OP_NOP, 0, 0, 0)}

\* the addresses a driver pokes; MEM_SIZE + 1 is address 1 again
WriteAddrs == {0, 1, 2, 32767, MEM_SIZE + 1}

RunMaxes == {0, 15}

(***************************************************************************)
(* State                                                                   *)
(***************************************************************************)
VARIABLES A, B, X, PC, memory, overflow, halted, interrupt_enabled, cycles,
          run, last, crashed

cpuvars == <<A, B, X, PC, memory, overflow, halted, interrupt_enabled, cycles>>
vars == <<A, B, X, PC, memory, overflow, halted, interrupt_enabled, cycles,
          run, last, crashed>>

\* the ddp24_t the calls are made on
Cpu ==
    [A |-> A, B |-> B, X |-> X, PC |-> PC, memory |-> memory,
     overflow |-> overflow, halted |-> halted,
     interrupt_enabled |-> interrupt_enabled, cycles |-> cycles]

Becomes(c) ==
    /\ A' = c.A
    /\ B' = c.B
    /\ X' = c.X
    /\ PC' = c.PC
    /\ memory' = c.memory
    /\ overflow' = c.overflow
    /\ halted' = c.halted
    /\ interrupt_enabled' = c.interrupt_enabled
    /\ cycles' = c.cycles

Idle == [active |-> FALSE, max |-> 0, total |-> 0]

Call(op, ret, trace) == [op |-> op, ret |-> ret, trace |-> trace]

Init ==
    /\ A = ddp24_init.A
    /\ B = ddp24_init.B
    /\ X = ddp24_init.X
    /\ PC = ddp24_init.PC
    /\ memory = ddp24_init.memory
    /\ overflow = ddp24_init.overflow
    /\ halted = ddp24_init.halted
    /\ interrupt_enabled = ddp24_init.interrupt_enabled
    /\ cycles = ddp24_init.cycles
    /\ run = Idle
    /\ last = Call("init", 0, <<>>)
    /\ crashed = FALSE

(***************************************************************************)
(* Operations.  The driver is single-threaded: while ddp24_run is active   *)
(* only its loop runs, and after a call that does not return nothing runs. *)
(* The driver loads memory before it starts the processor (main.c: init,   *)
(* then load or poke, then step or run), so pokes follow construction.     *)
(***************************************************************************)
Construct ==
    /\ ~run.active /\ ~crashed
    /\ Becomes(ddp24_init)
    /\ last' = Call("init", 0, <<>>)
    /\ UNCHANGED <<run, crashed>>

Reset ==
    /\ ~run.active /\ ~crashed
    /\ Becomes(ddp24_reset(Cpu))
    /\ last' = Call("reset", 0, <<>>)
    /\ UNCHANGED <<run, crashed>>

Write ==
    /\ ~run.active /\ ~crashed
    /\ last.op \in {"init", "write"}
    /\ \E a \in WriteAddrs : \E v \in WriteValues(a % MEM_SIZE) :
          Becomes(ddp24_write(Cpu, a, v))
    /\ last' = Call("write", 0, <<>>)
    /\ UNCHANGED <<run, crashed>>

\* one call of ddp24_step by the driver
Step ==
    /\ ~run.active /\ ~crashed
    /\ halted \/ cycles < MaxCycles
    /\ LET r == ddp24_step(Cpu, {})
       IN IF r.returns
          THEN /\ Becomes(r.cpu)
               /\ last' = Call("step", r.ret, r.trace)
               /\ UNCHANGED <<run, crashed>>
          ELSE /\ crashed' = TRUE
               /\ UNCHANGED <<cpuvars, run, last>>

\* ddp24_run is entered: total = 0
RunBegin ==
    /\ ~run.active /\ ~crashed
    /\ \E m \in RunMaxes : run' = [active |-> TRUE, max |-> m, total |-> 0]
    /\ last' = Call("run", 0, <<>>)
    /\ UNCHANGED <<cpuvars, crashed>>

\* one iteration of the loop of ddp24_run: total += ddp24_step(cpu)
RunIterate ==
    /\ run.active /\ ~crashed
    /\ RunContinues(Cpu, run.max, run.total)
    /\ cycles < MaxCycles
    /\ LET r == ddp24_step(Cpu, {})
       IN IF r.returns
          THEN /\ Becomes(r.cpu)
               /\ run' = [run EXCEPT !.total = @ + r.ret]
               /\ last' = Call("step", r.ret, r.trace)
               /\ UNCHANGED crashed
          ELSE /\ crashed' = TRUE
               /\ UNCHANGED <<cpuvars, run, last>>

\* the loop condition of ddp24_run fails: return total
RunReturn ==
    /\ run.active /\ ~crashed
    /\ ~RunContinues(Cpu, run.max, run.total)
    /\ run' = Idle
    /\ last' = Call("return", run.total, <<>>)
    /\ UNCHANGED <<cpuvars, crashed>>

Next ==
    \/ Construct
    \/ Reset
    \/ Write
    \/ Step
    \/ RunBegin
    \/ RunIterate
    \/ RunReturn

Spec == Init /\ [][Next]_vars

(***************************************************************************)
(* The instruction self-tests.  As run_tests of main.c does, the driver    *)
(* constructs a processor, assigns registers and memory words directly     *)
(* (main.c:86-89, 254-255) and then steps.  The program is one instruction *)
(* under study at address 0 whose address field is 8, in every addressing  *)
(* mode; a STA under study is followed by an LDA in the same mode.         *)
(*   X[1] = 2 and X[3] = 32767, so indexing reaches 10 and wraps to 7;     *)
(*   X[2] = 15 reaches 23, a word that is zero (and a shift count of 23)   *)
(*   memory[8]  the operand, drawn from OpWords                            *)
(*   memory[10] a negative word that has the indirect bit and points to 7  *)
(*   memory[7]  the word 8, which as a pointer leads back to the operand   *)
(***************************************************************************)
OpWords ==
    {0, SIGN_BIT, 1, 5, SIGN_BIT + 5, MAGNITUDE_MASK, WORD_MASK, INDIRECT_BIT + 10}

OpBWords == {0, SIGN_BIT, SIGN_BIT + 5, MAGNITUDE_MASK, INDIRECT_BIT + 10}

OpStudied ==
    {OP_NOP, OP_LDA, OP_STA, OP_ADD, OP_SUB, OP_MPY, OP_DIV, OP_JMP, OP_JPL,
     OP_JMI, OP_JZE, OP_JNZ, OP_SKG, OP_SKN, OP_JSL, OP_ARS, OP_ALS}

OpIndex ==
    [i \in 0..3 |-> CASE i = 1 -> 2 [] i = 2 -> 15 [] i = 3 -> ADDR_MASK
                      [] OTHER -> 0]

OpMemory(op, ind, idx, v) ==
    LET m0 == Store(<<>>, 0, Instr(op, ind, idx, 8))
        m1 == IF op = OP_STA THEN Store(m0, 1, Instr(OP_LDA, ind, idx, 8)) ELSE m0
        m2 == Store(m1, 7, 8)
        m3 == Store(m2, 10, SIGN_BIT + INDIRECT_BIT + 7)
    IN Store(m3, 8, v)

\* the direct assignments of a self-test between ddp24_init and the first step
Setup ==
    /\ ~run.active /\ ~crashed
    /\ last.op = "init"
    /\ \E op \in OpStudied : \E ind \in 0..1 : \E idx \in 0..3 :
       \E a \in OpWords : \E b \in OpBWords : \E v \in OpWords :
       \E ov \in BOOLEAN :
          Becomes([Cpu EXCEPT !.A = a, !.B = b, !.X = OpIndex, !.overflow = ov,
                              !.memory = OpMemory(op, ind, idx, v)])
    /\ last' = Call("setup", 0, <<>>)
    /\ UNCHANGED <<run, crashed>>

OpNext ==
    \/ Setup
    \/ Step

OpSpec == Init /\ [][OpNext]_vars

(***************************************************************************)
(* Properties                                                              *)
(***************************************************************************)
\* the instruction the last step call dispatched last (through XEC: the
\* innermost fetch)
Executed == last.trace[Len(last.trace)]

\* the last call was a step call that fetched an instruction
Stepped == last.op = "step" /\ last.trace # <<>>

\* this transition is a call of ddp24_step that returned
StepTaken == last'.op = "step" /\ ~crashed'

\* the opcode values 0..63 the switch has no case for
Unimplemented == (0..OP_MASK) \ CaseOpcodes

\* the instruction the step call of this transition dispatched last, and
\* the word its effective address names, as it was before the call
ExecutedNext == last'.trace[Len(last'.trace)]
Operand == ddp24_read(Cpu, ExecutedNext.ea)

\* this transition is a step call that dispatched op (directly or as the
\* innermost instruction of an XEC chain)
Executes(op) ==
    StepTaken /\ ~halted /\ last'.trace # <<>> /\ ExecutedNext.op = op

\* C1: in every reachable state A, B and every memory word are below 2^24,
\* PC and X[1..3] are below 2^15 and X[0] is 0.
C1_WordRanges ==
    /\ A \in 0..WORD_MASK
    /\ B \in 0..WORD_MASK
    /\ DOMAIN memory \subseteq 0..(MEM_SIZE - 1)
    /\ \A a \in DOMAIN memory : memory[a] \in 0..WORD_MASK
    /\ PC \in 0..ADDR_MASK
    /\ DOMAIN X = 0..3
    /\ \A i \in 1..3 : X[i] \in 0..ADDR_MASK
    /\ X[0] = 0

\* C1 witness: with overflow latched by an addition that overflowed, the
\* word at 32767 was fetched and the fetch increment wrapped PC to 0
C1_Witness ==
    /\ Stepped
    /\ overflow
    /\ Executed.addr = ADDR_MASK
    /\ Executed.op = OP_NOP
    /\ PC = 0

\* C2: a step call on a halted processor returns 0 and changes nothing.
C2_HaltedStepIsNoOp ==
    [][(halted /\ StepTaken) => (UNCHANGED cpuvars /\ last'.ret = 0)]_vars

\* C2 witness: a step call was made on a processor halted by an earlier step
C2_Witness ==
    /\ halted
    /\ last.op = "step"
    /\ last.trace = <<>>
    /\ last.ret = 0
    /\ cycles > 0

\* C3: XEC with effective address E executes the word at memory[E], and PC
\* ends at (E+1) mod 2^15 unless the executed instruction writes PC.
C3_XecExecutesWordAtEA ==
    (Stepped /\ last.trace[1].op = OP_XEC) =>
        /\ last.trace[2].addr = last.trace[1].ea
        /\ (Len(last.trace) = 2 /\ last.trace[2].op \in {OP_NOP, OP_LDA, OP_TAB})
              => PC = Addr(last.trace[1].ea + 1)

\* C4: every call of ddp24_step returns; an XEC chain that leads back into
\* itself is cut off.
C4_StepReturns == ~crashed

\* C5: after HLT executes, halted is set and PC is the address of the HLT
\* word that was executed.
C5_HltStaysOnHlt ==
    (Stepped /\ Executed.op = OP_HLT) => (halted /\ PC = Executed.addr)

\* C5 witness: HLT at address 32767 executed through XEC: the fetch
\* increment wrapped PC to 0 and HLT put it back
C5_Witness ==
    /\ Stepped
    /\ Len(last.trace) = 2
    /\ last.trace[1].op = OP_XEC
    /\ Executed.op = OP_HLT
    /\ Executed.addr = ADDR_MASK
    /\ PC = ADDR_MASK
    /\ halted

\* C6: a step call adds to the cycle counter exactly the value it returns.
C6_CyclesGrowByReturn ==
    [][StepTaken => cycles' = cycles + last'.ret]_vars

\* C7: without reset the cycle counter never decreases; a step call on a
\* running processor increases it, on a halted one leaves it alone.
C7_CyclesMonotone ==
    [][/\ (StepTaken /\ ~halted) => cycles' > cycles
       /\ (StepTaken /\ halted) => cycles' = cycles
       /\ (last'.op \notin {"reset", "init"}) => cycles' >= cycles]_vars

\* C7 witness: the fault of an opcode without a case was charged cycles
C7_Witness ==
    /\ Stepped
    /\ Executed.op \in Unimplemented
    /\ halted
    /\ last.ret > 0
    /\ cycles >= last.ret

\* C8: halted is set only by a step that executes HLT or an opcode without
\* a case, and is cleared only by reset or construction.
C8_HaltedLatch ==
    [][/\ (~halted /\ halted') =>
              (StepTaken /\ last'.trace # <<>>
               /\ last'.trace[Len(last'.trace)].op \in {OP_HLT} \cup Unimplemented)
       /\ (halted /\ ~halted') => last'.op \in {"reset", "init"}]_vars

\* C8 witness: run was called on a processor that an earlier step had
\* halted, and returned with it still halted
C8_Witness ==
    /\ halted
    /\ last.op = "return"
    /\ last.ret = 0
    /\ cycles > 0

\* C9: once set, overflow stays set under step and run; only reset and
\* construction clear it; the step that sets it does not halt.
C9_OverflowSticky ==
    [][/\ (overflow /\ last'.op \notin {"reset", "init"}) => overflow'
       /\ (~overflow /\ overflow' /\ ~halted) => ~halted']_vars

\* C9 witness: with overflow latched, an ADD of a zero word (which cannot
\* overflow) has executed
C9_Witness ==
    /\ Stepped
    /\ overflow
    /\ ~halted
    /\ Executed.op = OP_ADD
    /\ Cell(memory, Executed.ea) = 0

\* C10: a step that decodes an opcode without a case latches halted and
\* changes nothing but halted, PC and cycles.
C10_UnimplementedFaults ==
    [][(StepTaken /\ ~halted /\ last'.trace # <<>>
        /\ last'.trace[Len(last'.trace)].op \in Unimplemented) =>
            /\ halted'
            /\ A' = A /\ B' = B /\ X' = X /\ memory' = memory
            /\ overflow' = overflow
            /\ interrupt_enabled' = interrupt_enabled]_vars

\* C10 witness: TAX (063), named by the header but without a case, halted
\* the processor with a loaded accumulator in place
C10_Witness ==
    /\ Stepped
    /\ Executed.op = OP_TAX
    /\ halted
    /\ A # 0
    /\ {OP_STC, OP_SMX, OP_TAX} \subseteq Unimplemented

\* C11: DIV with magnitude(A) >= magnitude(operand), a zero divisor of either
\* sign included, latches overflow, leaves A, B, X and memory unchanged, does
\* not halt and costs 44 cycles; no divide is performed.
C11_ImproperDivide ==
    [][(Executes(OP_DIV) /\ (Mag(A) >= Mag(Operand) \/ Mag(Operand) = 0)) =>
            /\ overflow'
            /\ A' = A /\ B' = B /\ X' = X /\ memory' = memory
            /\ ~halted'
            /\ Len(last'.trace) = 1 => (last'.ret = 44 /\ cycles' = cycles + 44)
            /\ PC' = Addr(ExecutedNext.addr + 1)]_vars

\* C11 witness: DIV by negative zero with a non-zero dividend returned 44,
\* overflow latched, the processor still running
C11_Witness ==
    /\ Stepped
    /\ Executed.op = OP_DIV
    /\ Cell(memory, Executed.ea) = SIGN_BIT
    /\ A = MAGNITUDE_MASK /\ B = SIGN_BIT + 5
    /\ overflow /\ ~halted
    /\ last.ret = 44

\* C12: run(max) calls step only while the processor is not halted and
\* (max <= 0 or the total returned so far is below max), adds each step's
\* return value to the total, and returns the total only when halted or, with
\* max > 0, when the total has reached max; entering and leaving run change
\* nothing of the processor.
C12_RunBudget ==
    [][/\ (last'.op = "run" /\ ~run.active) =>
              (run'.total = 0 /\ UNCHANGED cpuvars)
       /\ (run.active /\ StepTaken) =>
              /\ ~halted
              /\ run.max <= 0 \/ run.total < run.max
              /\ run'.active
              /\ run'.total = run.total + last'.ret
       /\ (run.active /\ ~run'.active) =>
              /\ halted \/ (run.max > 0 /\ run.total >= run.max)
              /\ last'.op = "return"
              /\ last'.ret = run.total
              /\ UNCHANGED cpuvars]_vars

\* C12 witness: run returned a total that reached its budget of 15 with the
\* processor still running
C12_Witness ==
    /\ last.op = "return"
    /\ ~halted
    /\ last.ret >= 15
    /\ ~run.active

\* C13: reset zeroes A, B, X[0..3], PC and cycles, clears overflow, halted
\* and interrupt_enabled and leaves memory as it was; the step call after a
\* reset fetches the word at address 0 whatever the processor was before.
C13_ResetPreservesMemory ==
    [][/\ last'.op = "reset" =>
              /\ A' = 0 /\ B' = 0 /\ PC' = 0 /\ cycles' = 0
              /\ X' = [i \in 0..3 |-> 0]
              /\ ~overflow' /\ ~halted' /\ ~interrupt_enabled'
              /\ memory' = memory
       /\ (last.op = "reset" /\ StepTaken) =>
              /\ last'.trace # <<>>
              /\ last'.trace[1].addr = 0
              /\ last'.trace[1].instr = Cell(memory, 0)
              /\ last'.ret > 0]_vars

\* C13 witness: the first step after a reset reloaded A from address 0 while
\* the last word of memory still holds what a STA before the reset stored
C13_Witness ==
    /\ last.op = "step"
    /\ last.ret = 10 /\ cycles = 10 /\ PC = 1
    /\ A = Instr(OP_LDA, 0, 0, 0)
    /\ Cell(memory, ADDR_MASK) = Instr(OP_LDA, 0, 0, 0)

\* the values a write is tried with: zero, the all-ones word and a value
\* wider than 24 bits
PokeWords == {0, WORD_MASK, WORD_MASK + 6}

\* C14: in every reachable state, for every address a and value w,
\* write(a, w) followed by read(a) gives w & 0xFFFFFF, read gives the same
\* for every address congruent to a modulo 32768, and the write changes no
\* other memory word and no register.
C14_WriteReadRoundTrip ==
    \A a \in WriteAddrs : \A w \in PokeWords :
        \A c \in {ddp24_write(Cpu, a, w)} :
           /\ ddp24_read(c, a) = w % (WORD_MASK + 1)
           /\ ddp24_read(c, a % MEM_SIZE) = w % (WORD_MASK + 1)
           /\ ddp24_read(c, a + MEM_SIZE) = w % (WORD_MASK + 1)
           /\ \A x \in (DOMAIN memory \cup DOMAIN c.memory) \ {a % MEM_SIZE} :
                 Cell(c.memory, x) = Cell(memory, x)
           /\ [c EXCEPT !.memory = memory] = Cpu

\* C14 witness: the driver wrote a value wider than 24 bits to the last word
\* of memory and the word holds its low 24 bits, next to a loaded program
C14_Witness ==
    /\ last.op = "write"
    /\ Cell(memory, ADDR_MASK) = (WORD_MASK + 6) % (WORD_MASK + 1)
    /\ Cell(memory, 1) # 0
    /\ Cell(memory, 0) # 0

\* C15: STA leaves A unchanged and makes the word at its effective address
\* equal to A; an LDA executed next that resolves to the same effective
\* address leaves A at the value it had before the STA, equal to that word.
C15_StaLdaRoundTrip ==
    [][/\ Executes(OP_STA) =>
              (A' = A /\ Cell(memory', ExecutedNext.ea) = A)
       /\ (Stepped /\ Executed.op = OP_STA /\ Executes(OP_LDA)
            /\ ExecutedNext.ea = Executed.ea) =>
              (A' = A /\ Cell(memory', ExecutedNext.ea) = A')]_vars

\* C15 witness: STA and LDA, both indexed by X[3] to address 7, have run
\* (two steps of 10 cycles); the word at 7, set up as 8, now holds the
\* all-ones word that A held and holds
C15_Witness ==
    /\ Stepped
    /\ Executed.op = OP_LDA /\ Executed.addr = 1 /\ Executed.ea = 7
    /\ decode_opcode(Cell(memory, 0)) = OP_STA
    /\ cycles = 20
    /\ A = WORD_MASK
    /\ Cell(memory, 7) = WORD_MASK

\* the number a sign-magnitude word stands for, and the word the claim
\* gives for a true result s
SignedValue(w) == IF w >= SIGN_BIT THEN -(w - SIGN_BIT) ELSE w
Magnitude(s) == IF s < 0 THEN -s ELSE s
ResultWord(s) ==
    IF Magnitude(s) <= MAGNITUDE_MASK
    THEN IF s < 0 THEN SIGN_BIT + Magnitude(s) ELSE s
    ELSE (IF s < 0 THEN SIGN_BIT ELSE 0) + (Magnitude(s) % SIGN_BIT)

ArithmeticStep(s) ==
    /\ A' = ResultWord(s)
    /\ Magnitude(s) <= MAGNITUDE_MASK => overflow' = overflow
    /\ Magnitude(s) > MAGNITUDE_MASK => overflow'
    /\ s = 0 => A' = 0
    /\ B' = B /\ X' = X /\ memory' = memory /\ ~halted'

\* C16: ADD sets A to the sign-magnitude word of s = value(A) + value(operand)
\* and SUB to that of s = value(A) - value(operand): for |s| <= 2^23 - 1 the
\* encoding of s (zero is positive zero) with overflow unchanged, otherwise
\* the sign of s with the low 23 bits of |s| and overflow latched.
C16_AddSub ==
    [][/\ Executes(OP_ADD) =>
              ArithmeticStep(SignedValue(A) + SignedValue(Operand))
       /\ Executes(OP_SUB) =>
              ArithmeticStep(SignedValue(A) - SignedValue(Operand))]_vars

\* C16 witness: ADD of the largest positive word to itself left the low 23
\* bits of 2^24 - 2 in A, positive, with overflow latched
C16_Witness ==
    /\ Stepped
    /\ Executed.op = OP_ADD
    /\ Cell(memory, Executed.ea) = MAGNITUDE_MASK
    /\ A = MAGNITUDE_MASK - 1
    /\ overflow /\ ~halted

\* Four primes below 2^15 whose product exceeds 2^46: two naturals below
\* 2^46 are equal exactly when they agree modulo each of them, and the
\* residues are computed without leaving 31 bits.
Moduli == {32749, 32719, 32717, 32713}

\* hi * 2^23 + lo = x * y, for hi, lo, x, y below 2^23
IsProduct(hi, lo, x, y) ==
    \A m \in Moduli :
        (((hi % m) * (SIGN_BIT % m)) + lo) % m = ((x % m) * (y % m)) % m

\* C17: after MPY, magnitude(A) * 2^23 + magnitude(B) is magnitude(B before)
\* times magnitude(operand); the sign bits of A and of B are both set exactly
\* when that product is non-zero and the operand signs differ; a zero product
\* gives positive zero in A and B.
C17_Multiply ==
    [][Executes(OP_MPY) =>
          LET nonzero == Mag(B) # 0 /\ Mag(Operand) # 0
              negative == nonzero /\ (SignSet(B) # SignSet(Operand))
          IN /\ A' \in 0..WORD_MASK /\ B' \in 0..WORD_MASK
             /\ IsProduct(Mag(A'), Mag(B'), Mag(B), Mag(Operand))
             /\ SignSet(A') = negative
             /\ SignSet(B') = negative
             /\ ~nonzero => (A' = 0 /\ B' = 0)]_vars

\* C17 witness: the largest positive word times the largest negative one:
\* the 46-bit product (2^23 - 1)^2 has high half 2^23 - 2 and low half 1,
\* both negative
C17_Witness ==
    /\ Stepped
    /\ Executed.op = OP_MPY
    /\ Cell(memory, Executed.ea) = WORD_MASK
    /\ A = WORD_MASK - 1
    /\ B = SIGN_BIT + 1

\* C18: after a proper DIV (magnitude(A) < d = magnitude(operand)), with
\* D = magnitude(A before) * 2^23 + magnitude(B before):
\* magnitude(B) * d + magnitude(A) = D and magnitude(A) < d, the quotient is
\* below 2^23; B is negative exactly when the quotient is non-zero and the
\* signs of A before and the divisor differ, A is negative exactly when the
\* remainder is non-zero and A before was negative; overflow is unchanged.
C18_ProperDivide ==
    [][(Executes(OP_DIV) /\ Mag(A) < Mag(Operand)) =>
          /\ A' \in 0..WORD_MASK /\ B' \in 0..WORD_MASK
          /\ \A m \in Moduli :
                (((Mag(B') % m) * (Mag(Operand) % m)) + Mag(A')) % m
                   = (((Mag(A) % m) * (SIGN_BIT % m)) + Mag(B)) % m
          /\ Mag(A') < Mag(Operand)
          /\ SignSet(B') = (Mag(B') # 0 /\ (SignSet(A) # SignSet(Operand)))
          /\ SignSet(A') = (Mag(A') # 0 /\ SignSet(A))
          /\ overflow' = overflow
          /\ ~halted' /\ X' = X /\ memory' = memory]_vars

\* C18 witness: a positive double-length dividend was divided by the
\* largest negative word: overflow stays clear, the quotient in B is
\* negative and non-zero, the remainder in A positive and non-zero
C18_Witness ==
    /\ Stepped
    /\ Executed.op = OP_DIV
    /\ Cell(memory, Executed.ea) = WORD_MASK
    /\ ~overflow /\ ~halted
    /\ SignSet(B) /\ Mag(B) # 0
    /\ ~SignSet(A) /\ Mag(A) # 0
    /\ last.ret = 44

\* the effective address as the claim states it, from the fields of the
\* instruction word, the index registers x and the memory mem
ClaimedEA(instr, x, mem) ==
    LET a == instr % MEM_SIZE
        i == (instr \div MEM_SIZE) % 4
        indirect == (instr \div (4 * MEM_SIZE)) % 2
        indexed == (a + x[i]) % MEM_SIZE
    IN IF indirect = 1 THEN Cell(mem, indexed) % MEM_SIZE ELSE indexed

\* C19: the effective address every dispatched instruction is given is
\* (a + X[i]) mod 2^15, or with the indirect bit set the low 15 bits of the
\* word there: index first, then exactly one level of indirection; LDA loads
\* from it, JMP jumps to it, and computing it changes no state (NOP in any
\* addressing mode changes only PC and cycles).
C19_EffectiveAddress ==
    [][(StepTaken /\ ~halted) =>
          /\ \A k \in 1..Len(last'.trace) :
                last'.trace[k].ea = ClaimedEA(last'.trace[k].instr, X, memory)
          /\ Executes(OP_LDA) =>
                A' = Cell(memory, ClaimedEA(ExecutedNext.instr, X, memory))
          /\ Executes(OP_JMP) => PC' = ClaimedEA(ExecutedNext.instr, X, memory)
          /\ Executes(OP_NOP) =>
                /\ A' = A /\ B' = B /\ X' = X /\ memory' = memory
                /\ overflow' = overflow /\ ~halted'
                /\ interrupt_enabled' = interrupt_enabled]_vars

\* C19 witness: LDA 8, indexed by X[1] = 2 and indirect, went through the
\* pointer at 10 (which has its own indirect bit set and points to 7) and
\* loaded the word at 7, not the word that one points to
C19_Witness ==
    /\ Stepped
    /\ Executed.instr = Instr(OP_LDA, 1, 1, 8)
    /\ Executed.addr = 0
    /\ X[1] = 2
    /\ decode_indirect(Cell(memory, 10))
    /\ Executed.ea = 7
    /\ A = Cell(memory, 7)
    /\ A # Cell(memory, Cell(memory, 7) % MEM_SIZE)

\* a conditional jump step: PC becomes the effective address when the jump
\* is taken and the address after the jump instruction when it is not, and
\* nothing else but cycles changes
JumpStep(taken) ==
    /\ PC' = IF taken THEN ExecutedNext.ea ELSE Addr(ExecutedNext.addr + 1)
    /\ A' = A /\ B' = B /\ X' = X /\ memory' = memory
    /\ overflow' = overflow /\ ~halted'

\* C20: for every A, JZE jumps exactly when A is 0x000000 or 0x800000, JNZ
\* exactly when it is neither, JMI exactly when the sign bit is set (negative
\* zero included), JPL exactly when the sign bit is clear and A is not zero.
C20_ConditionalJumps ==
    [][/\ Executes(OP_JZE) => JumpStep(A \in {0, SIGN_BIT})
       /\ Executes(OP_JNZ) => JumpStep(A \notin {0, SIGN_BIT})
       /\ Executes(OP_JMI) => JumpStep(A >= SIGN_BIT)
       /\ Executes(OP_JPL) => JumpStep(A < SIGN_BIT /\ A # 0)]_vars

\* C20 witness: JMI with negative zero in A jumped to its effective address
C20_Witness ==
    /\ Stepped
    /\ Executed.op = OP_JMI
    /\ A = SIGN_BIT
    /\ PC = Executed.ea
    /\ PC # Addr(Executed.addr + 1)
    /\ last.ret = 6

\* a skip step: PC ends two words after the instruction when it skips and
\* one word after it when it does not; A, B and memory are unchanged
SkipStep(skips) ==
    /\ PC' = Addr(ExecutedNext.addr + (IF skips THEN 2 ELSE 1))
    /\ A' = A /\ B' = B /\ X' = X /\ memory' = memory
    /\ overflow' = overflow /\ ~halted'

\* C21: SKN skips exactly when A and the operand differ as 24-bit patterns
\* (so +0 against -0 skips); SKG skips exactly when value(A) > value(operand)
\* (so +0 against -0 does not skip in either order); neither changes A, B or
\* memory.
C21_Skips ==
    [][/\ Executes(OP_SKN) => SkipStep(A # Operand)
       /\ Executes(OP_SKG) => SkipStep(SignedValue(A) > SignedValue(Operand))
       /\ (Executes(OP_SKG) /\ {A, Operand} = {0, SIGN_BIT}) => SkipStep(FALSE)
       /\ (Executes(OP_SKN) /\ {A, Operand} = {0, SIGN_BIT}) => SkipStep(TRUE)]_vars

\* C21 witness: SKN at address 0 with negative zero in A against a positive
\* zero operand skipped the word at 1
C21_Witness ==
    /\ Stepped
    /\ Executed.op = OP_SKN /\ Executed.addr = 0
    /\ A = SIGN_BIT
    /\ Cell(memory, Executed.ea) = 0
    /\ PC = 2
    /\ last.ret = 10

\* C22: JSL fetched from address p stores (p + 1) mod 2^15 in memory[ea] and
\* sets PC to (ea + 1) mod 2^15, also for ea = 32767 and for ea = p; no
\* other word and no register changes, and the step call that follows
\* fetches the word after the link cell.
C22_JumpAndLink ==
    [][/\ Executes(OP_JSL) =>
              /\ Cell(memory', ExecutedNext.ea) = (ExecutedNext.addr + 1) % MEM_SIZE
              /\ PC' = (ExecutedNext.ea + 1) % MEM_SIZE
              /\ \A x \in (DOMAIN memory \cup DOMAIN memory') \ {ExecutedNext.ea} :
                    Cell(memory', x) = Cell(memory, x)
              /\ A' = A /\ B' = B /\ X' = X /\ overflow' = overflow /\ ~halted'
       /\ (Stepped /\ Executed.op = OP_JSL /\ StepTaken /\ ~halted) =>
              last'.trace[1].addr = (Executed.ea + 1) % MEM_SIZE]_vars

\* C22 witness: JSL at address 0 through a pointer to the last word of
\* memory stored the return address 1 there and PC wrapped to 0
C22_Witness ==
    /\ Stepped
    /\ Executed.op = OP_JSL /\ Executed.addr = 0
    /\ Executed.ea = ADDR_MASK
    /\ Cell(memory, ADDR_MASK) = 1
    /\ PC = 0
    /\ last.ret = 10

\* floor(m / 2^c) and (m * 2^c) mod 2^23 for a magnitude m below 2^23 and a
\* count c in 0..31, without a power of two beyond 2^23
ShiftedRight(m, c) == IF c >= 23 THEN 0 ELSE m \div Pow2(c)
ShiftedLeft(m, c) == IF c >= 23 THEN 0 ELSE (m % Pow2(23 - c)) * Pow2(c)

\* a shift step with count c that leaves magnitude m in A: the sign bit of A
\* is kept, nothing else changes, and a directly executed shift returns 5 + c
ShiftStep(m, c) ==
    /\ A' = (IF A >= SIGN_BIT THEN SIGN_BIT ELSE 0) + m
    /\ c >= 23 => A' \in {0, SIGN_BIT}
    /\ Len(last'.trace) = 1 => (last'.ret = 5 + c /\ cycles' = cycles + 5 + c)
    /\ overflow' = overflow
    /\ B' = B /\ X' = X /\ memory' = memory /\ ~halted'

\* C23: with c = ea mod 32, ARS sets magnitude(A) to floor(magnitude(A)/2^c)
\* and ALS to (magnitude(A) * 2^c) mod 2^23; the sign bit of A is kept, a
\* count of 23 or more leaves magnitude 0, the step costs 5 + c cycles and
\* overflow is not changed.
C23_Shifts ==
    [][/\ Executes(OP_ARS) =>
              ShiftStep(ShiftedRight(A % SIGN_BIT, ExecutedNext.ea % 32),
                        ExecutedNext.ea % 32)
       /\ Executes(OP_ALS) =>
              ShiftStep(ShiftedLeft(A % SIGN_BIT, ExecutedNext.ea % 32),
                        ExecutedNext.ea % 32)]_vars

\* C23 witness: ARS with count 23 (address 8 indexed by X[2] = 15) returned
\* 28 and left negative zero in A
C23_Witness ==
    /\ Stepped
    /\ Executed.op = OP_ARS /\ Executed.addr = 0
    /\ Executed.ea = 23
    /\ A = SIGN_BIT
    /\ last.ret = 28 /\ cycles = 28

\* the addresses whose word differs between the two states of a transition
ChangedWords ==
    {x \in DOMAIN memory \cup DOMAIN memory' : Cell(memory', x) # Cell(memory, x)}

\* C24: a step call changes at most one memory word, and only when the
\* instruction it executed (directly or through XEC) is STA, STB, JSL or SIX;
\* the word changed is then memory[ea] of that instruction.
C24_MemoryFrame ==
    [][StepTaken =>
          /\ Cardinality(ChangedWords) <= 1
          /\ ChangedWords # {} =>
                /\ last'.trace # <<>>
                /\ ExecutedNext.op \in {OP_STA, OP_STB, OP_JSL, OP_SIX}
                /\ ChangedWords = {ExecutedNext.ea}]_vars

\* C24 witness: XEC at address 0 executed the JSL at address 1, which
\* stored its return address 2 over the XEC word
C24_Witness ==
    /\ Stepped
    /\ Len(last.trace) = 2
    /\ last.trace[1].op = OP_XEC
    /\ Executed.op = OP_JSL /\ Executed.addr = 1 /\ Executed.ea = 0
    /\ Cell(memory, 0) = 2
    /\ PC = 1

====
